---- MODULE Spec2Model ----
(***************************************************************************)
(* Code-Atlas frontend: the RepoAnalyzer orchestrator, the RepoInput       *)
(* submission form and the JobProgress component in its adaptive-polling   *)
(* and WebSocket revisions.                                                *)
(*                                                                         *)
(* One JobProgress effect activation (one run of the useEffect body, up to *)
(* its cleanup) is one "job channel".  React commits a render some time    *)
(* after the state setters ran; transport callbacks (responses, timers,    *)
(* socket messages) are separate tasks and may run before that commit.     *)
(*                                                                         *)
(* RepoExplorer with its recursive TreeNode is modelled for one displayed  *)
(* tree: the search filter, the expansion set and the rendered rows.       *)
(***************************************************************************)
EXTENDS Integers, Sequences, FiniteSets, TLC

\* ------------------------------------------------------------- bounds
MaxJobs == 2
MaxPolls == 3
MaxProgress == 1
MaxNodes == 3
MaxText == 2
MaxQuestions == 2

\* job ids the server may assign; the wide specification uses one more
Jobs == 1..(MaxJobs + 1)
NoJob == 0
NoTree == 0
NoError == ""
Progress == 0..MaxProgress
Variants == {"poll", "ws"}
JobStates == {"queued", "running", "completed", "failed", "cancelled"}
JobMessages == {"", "disk full"}

VARIABLES
    variant,          \* which JobProgress revision is built into the page
    currentJob,       \* RepoAnalyzer state: job id or NoJob
    repoTree,         \* RepoAnalyzer state: tree (named by its job) or NoTree
    completedJobId,   \* RepoAnalyzer state
    error,            \* RepoAnalyzer state: message or NoError
    renderPending,    \* a RepoAnalyzer state change not yet committed
    view,             \* what the last commit mounted
    instance,         \* mounted JobProgress instance (job of its first activation)
    shown,            \* JobProgress state currentJob: what the progress card shows
    inputOwner,       \* submission in flight from the mounted RepoInput (isLoading)
    submitting,       \* /analyze requests in flight
    nextJob,          \* next job id the server assigns
    jobLimit,         \* how many jobs are submitted in one behaviour
    acts,             \* effect activations of JobProgress, by job
    explorerTree,     \* RepoExplorer prop `tree`: the tree displayed
    searchQuery,      \* RepoExplorer state
    expandedNodes,    \* RepoExplorer state: set of paths
    selectedNode,     \* RepoExplorer state: a node or NoRepoTree
    download,         \* the link downloadJSON had the browser follow last
    explorerVariant,  \* which TreeNode revision RepoExplorer renders with
    toggled,          \* paths whose toggle control was used an odd number of times
    rows,             \* the TreeNode rows of the last render
    chat              \* BottomChat state, and its questions in flight

orch == <<currentJob, repoTree, completedJobId, error>>
channel == <<variant, currentJob, repoTree, completedJobId, error,
             renderPending, view, instance, shown, inputOwner, submitting,
             nextJob, jobLimit, acts>>
explorer == <<explorerTree, searchQuery, expandedNodes, selectedNode, download,
              explorerVariant, toggled, rows, chat>>
vars == <<variant, currentJob, repoTree, completedJobId, error, renderPending,
          view, instance, shown, inputOwner, submitting, nextJob, jobLimit,
          acts, explorerTree, searchQuery, expandedNodes, selectedNode,
          download, explorerVariant, toggled, rows, chat>>

\* ------------------------------------------------ RepoAnalyzer handlers
OrchState ==
    [currentJob |-> currentJob, repoTree |-> repoTree,
     completedJobId |-> completedJobId, error |-> error]

handleAnalysisStart(o, job) ==
    [o EXCEPT !.currentJob = job, !.repoTree = NoTree, !.error = NoError]

\* closureJob: currentJob as captured by the render that created the callback
handleJobComplete(o, tree, closureJob) ==
    [o EXCEPT !.repoTree = tree, !.completedJobId = closureJob,
              !.currentJob = NoJob]

handleError(o, errorMessage) ==
    [o EXCEPT !.error = errorMessage, !.currentJob = NoJob]

handleReset(o) ==
    [currentJob |-> NoJob, repoTree |-> NoTree,
     completedJobId |-> NoJob, error |-> NoError]

SetOrch(o) ==
    /\ currentJob' = o.currentJob
    /\ repoTree' = o.repoTree
    /\ completedJobId' = o.completedJobId
    /\ error' = o.error
    /\ renderPending' = (renderPending \/ o # OrchState)

\* what RepoAnalyzer's JSX mounts for a given state
Render(o) ==
    [input |-> (o.currentJob = NoJob /\ o.repoTree = NoTree),
     progress |-> o.currentJob,
     explorer |-> (o.repoTree # NoTree /\ o.completedJobId # NoJob),
     errorPanel |-> (o.error # NoError)]

\* ------------------------------------------------ JobProgress activations
Unborn ==
    [born |-> FALSE, inst |-> NoJob, isActive |-> FALSE, pollCount |-> 0,
     statusInFlight |-> 0, treeInFlight |-> 0, timer |-> 0,
     socket |-> "none", calls |-> 0, treeFetches |-> 0]

InitialJob == [state |-> "queued", progress |-> 0]

NoCall == [kind |-> "none"]
CallComplete(tree) == [kind |-> "complete", tree |-> tree]
CallError(msg) == [kind |-> "error", msg |-> msg]
NoSet == [state |-> "none", progress |-> 0]

\* the fixed text always
OrElse_Fixed(message, fallback) == fallback

\* x || fallback for an optional message
OrElse(message, fallback) == IF message = "" THEN fallback ELSE message

Sat(n) == IF n < 2 THEN n + 1 ELSE 2


Result(r, call, set) == [act |-> r, call |-> call, set |-> set]

\* ------------------------------------ adaptive polling: the effect body
StatusResponses ==
    [kind : {"ok"}, state : JobStates, progress : Progress,
     message : JobMessages]
      \cup {[kind |-> "httpError"], [kind |-> "networkError"]}

TreeResponses == {"tree", "noTree", "httpError", "networkError"}

getNextPollInterval(pollCount) ==
    IF pollCount < 3 THEN 500
    ELSE IF pollCount < 10 THEN 1000
    ELSE IF pollCount < 20 THEN 2000
    ELSE 5000

\* the isActive checks of pollJob, one per place
ActiveOnEntry(r) == r.isActive
\* the re-check after the await left out
ActiveAfterStatus_Unchecked(r) == TRUE
ActiveAfterStatus(r) == r.isActive
ActiveBeforeComplete(r) == r.isActive
ActiveBeforeJobError(r) == r.isActive
ActiveBeforeSchedule(r) == r.isActive
ActiveInCatch(r) == r.isActive

\* requests issued on a fixed interval: the next poll is armed at entry
pollJobEnter_Interval(r) ==
    IF ~r.isActive THEN r
    ELSE [r EXCEPT !.pollCount = @ + 1, !.statusInFlight = @ + 1,
                   !.timer = 1000]

\* pollJob up to its first await: the guard, pollCount++, the status request
pollJobEnter(r) ==
    IF ~ActiveOnEntry(r) THEN r
    ELSE [r EXCEPT !.pollCount = @ + 1, !.statusInFlight = @ + 1]

\* the failure reported and the next poll armed all the same
pollJobCatch_Retry(r) ==
    IF r.isActive
    THEN Result([r EXCEPT !.timer = getNextPollInterval(r.pollCount)],
                CallError("Failed to check job status"), NoSet)
    ELSE Result(r, NoCall, NoSet)

\* the catch block of pollJob
pollJobCatch(r) ==
    IF ActiveInCatch(r)
    THEN Result(r, CallError("Failed to check job status"), NoSet)
    ELSE Result(r, NoCall, NoSet)

\* no next poll armed
scheduleNext_Never(r, state) == r

\* the next poll is armed only for a job still queued or running
scheduleNext(r, state) ==
    IF ActiveBeforeSchedule(r) /\ state \in {"queued", "running"}
    THEN [r EXCEPT !.timer = getNextPollInterval(r.pollCount)]
    ELSE r

\* the tree fetch started without leaving the polling loop
startTreeFetch_KeepPolling(r) ==
    [r EXCEPT !.treeInFlight = @ + 1, !.treeFetches = Sat(@), !.timer = 1000]

\* fetch(`/repos/${job.job_id}/tree`)
startTreeFetch(r) ==
    [r EXCEPT !.treeInFlight = @ + 1, !.treeFetches = Sat(@)]

\* the failed branch falling through to the scheduling of the next poll
stopPolling_FallThrough(r) ==
    [r EXCEPT !.timer = getNextPollInterval(r.pollCount)]

\* return; // Stop polling
stopPolling(r) == r

\* pollJob resumed with the outcome of the status request
pollJobOnStatus(r0, resp) ==
    LET r == [r0 EXCEPT !.statusInFlight = @ - 1]
        updatedJob == [state |-> resp.state, progress |-> resp.progress]
    IN  IF resp.kind # "ok" THEN pollJobCatch(r)
        ELSE IF ~ActiveAfterStatus(r) THEN Result(r, NoCall, NoSet)
        ELSE IF resp.state = "completed"
             THEN Result(startTreeFetch(r), NoCall, updatedJob)
        ELSE IF resp.state = "failed"
             THEN Result(stopPolling(r),
                         IF ActiveBeforeJobError(r)
                         THEN CallError(OrElse(resp.message, "Analysis failed"))
                         ELSE NoCall,
                         updatedJob)
        ELSE Result(scheduleNext(r, resp.state), NoCall, updatedJob)

\* pollJob resumed with the outcome of the tree fetch; job: the job polled
pollJobOnTree(r0, resp, job) ==
    LET r == [r0 EXCEPT !.treeInFlight = @ - 1]
    IN  IF resp \in {"httpError", "networkError"} THEN pollJobCatch(r)
        ELSE IF ActiveBeforeComplete(r)
             THEN Result(r, CallComplete(IF resp = "tree" THEN job ELSE NoTree),
                         NoSet)
        ELSE Result(r, NoCall, NoSet)

effectPoll(job, inst) ==
    pollJobEnter([Unborn EXCEPT !.born = TRUE, !.inst = inst,
                                !.isActive = TRUE])

\* the pending timer not cleared
cleanupPoll_KeepTimer(r) == [r EXCEPT !.isActive = FALSE]

cleanupPoll(r) == [r EXCEPT !.isActive = FALSE, !.timer = 0]

\* ----------------------------- fixed-interval polling: the effect body
\* pollJob up to its first await: fetch(`/jobs/${job.job_id}`)
intervalPollJob(r) ==
    [r EXCEPT !.pollCount = @ + 1, !.statusInFlight = @ + 1]

\* the catch block of pollJob
intervalCatch(r) ==
    Result(r, CallError("Failed to check job status"), NoSet)

\* pollJob resumed with the outcome of the status request
intervalOnStatus(r0, resp) ==
    LET r == [r0 EXCEPT !.statusInFlight = @ - 1]
        updatedJob == [state |-> resp.state, progress |-> resp.progress]
    IN  IF resp.kind # "ok" THEN intervalCatch(r)
        ELSE IF resp.state = "completed"
             THEN Result(startTreeFetch(r), NoCall, updatedJob)
        ELSE IF resp.state = "failed"
             THEN Result(r, CallError(OrElse(resp.message, "Analysis failed")),
                         updatedJob)
        ELSE Result(r, NoCall, updatedJob)

\* pollJob resumed with the outcome of the tree fetch; job: the job polled
intervalOnTree(r0, resp, job) ==
    LET r == [r0 EXCEPT !.treeInFlight = @ - 1]
    IN  IF resp \in {"httpError", "networkError"} THEN intervalCatch(r)
        ELSE Result(r, CallComplete(IF resp = "tree" THEN job ELSE NoTree),
                    NoSet)

\* setInterval(pollJob, 1000)
effectInterval(job, inst) ==
    [Unborn EXCEPT !.born = TRUE, !.inst = inst, !.isActive = TRUE,
                   !.timer = 1000]

\* clearInterval(interval); isActive records that the cleanup has run
cleanupInterval(r) == [r EXCEPT !.isActive = FALSE, !.timer = 0]

\* ------------------------------------------ WebSocket: the effect body
WsMessages ==
    [type : {"status"}, state : JobStates, progress : Progress]
      \cup [type : {"completed"}, state : {"completed"}, progress : Progress,
            tree : BOOLEAN]
      \cup [type : {"failed", "error"}, message : JobMessages]
      \cup {[type |-> "malformed"], [type |-> "ping"]}

FallbackResponses == {"tree", "noTree", "rejected"}

\* the socket left open
closeSocket_Noop(r) == r

\* ws.close(): a socket that is not OPEN dispatches no further message
closeSocket(r) == [r EXCEPT !.socket = "closed"]

ActiveOnMessage(r) == r.isActive
ActiveOnSocketError(r) == r.isActive

\* a parse failure treated as a connection failure
onMalformed_Fatal(r) ==
    Result(closeSocket(r), CallError("Connection error"), NoSet)

\* the catch block of ws.onmessage: JSON.parse threw
onMalformed(r) == Result(r, NoCall, NoSet)

\* ws.onmessage; job: the job of the socket
onmessage(r, data, job) ==
    IF ~ActiveOnMessage(r) THEN Result(r, NoCall, NoSet)
    ELSE IF data.type = "malformed" THEN onMalformed(r)
    ELSE IF data.type = "status"
         THEN Result(r, NoCall,
                     [state |-> data.state, progress |-> data.progress])
    ELSE IF data.type = "completed"
         THEN IF data.tree
              THEN Result(closeSocket(r), CallComplete(job),
                          [state |-> data.state, progress |-> data.progress])
              ELSE Result(closeSocket(startTreeFetch(r)), NoCall,
                          [state |-> data.state, progress |-> data.progress])
    ELSE IF data.type = "failed"
         THEN Result(closeSocket(r),
                     CallError(OrElse(data.message, "Analysis failed")), NoSet)
    ELSE IF data.type = "error"
         THEN Result(r, CallError(OrElse(data.message, "Unknown error")), NoSet)
    ELSE Result(r, NoCall, NoSet)

\* ws.onerror; a failed connection is closed by the browser
onerror(r0) ==
    LET r == [r0 EXCEPT !.socket = "closed"]
    IN  IF ActiveOnSocketError(r)
        THEN Result(r, CallError("Connection error"), NoSet)
        ELSE Result(r, NoCall, NoSet)

\* the .then/.catch chain of the fallback tree fetch
fallbackSettled(r0, resp, job) ==
    LET r == [r0 EXCEPT !.treeInFlight = @ - 1]
    IN  IF resp = "rejected"
        THEN Result(r, CallError("Failed to fetch tree"), NoSet)
        ELSE Result(r, CallComplete(IF resp = "tree" THEN job ELSE NoTree),
                    NoSet)

effectWs(job, inst) ==
    [Unborn EXCEPT !.born = TRUE, !.inst = inst, !.isActive = TRUE,
                   !.socket = "open"]

cleanupWs(r) == closeSocket([r EXCEPT !.isActive = FALSE])

\* ------------------------------------------------------ the effect
Effect(job, inst) ==
    CASE variant = "poll" -> effectPoll(job, inst)
      [] variant = "interval" -> effectInterval(job, inst)
      [] OTHER -> effectWs(job, inst)

Cleanup(r) ==
    CASE variant = "poll" -> cleanupPoll(r)
      [] variant = "interval" -> cleanupInterval(r)
      [] OTHER -> cleanupWs(r)

\* ------------------------------------------------------ the tree
\* texts are tuples of characters
Lower(ch) == CASE ch = "A" -> "a" [] ch = "B" -> "b" [] OTHER -> ch

toLowerCase(text) == [i \in 1..Len(text) |-> Lower(text[i])]

\* String.prototype.includes
includes(text, part) ==
    \E i \in 0..(Len(text) - Len(part)) :
       SubSeq(text, i + 1, i + Len(part)) = part

\* an absent summary; the empty summary behaves alike (both are falsy)
NoSummary == <<>>

\* RepoTree: children absent and children empty are both <<>>
RepoTree(path, label, type, children) ==
    [path |-> path, name |-> label.name, summary |-> label.summary,
     type |-> type, children |-> children]

\* no explorer mounted, no node selected (null)
NoRepoTree ==
    RepoTree(<<>>, [name |-> <<>>, summary |-> NoSummary], "none", <<>>)

Labels ==
    {[name |-> <<"A", "b">>, summary |-> NoSummary],
     [name |-> <<"b">>, summary |-> <<"B", "a">>]}

\* a childless node is a file or an empty directory
Leaves(path) ==
    {RepoTree(path, l, "file", <<>>) : l \in Labels}
      \cup {RepoTree(path, [name |-> <<"c">>, summary |-> NoSummary],
                     "directory", <<>>)}

RECURSIVE TreesAt(_, _), ForestsAt(_, _, _)
\* the trees of n nodes rooted at path: a node's path is its parent's path
\* followed by its position among the children
TreesAt(n, path) ==
    IF n = 1 THEN Leaves(path)
    ELSE {RepoTree(path, l, "directory", f) :
            l \in Labels, f \in ForestsAt(n - 1, path, 1)}

\* the child sequences of m nodes in all, the first child at position k
ForestsAt(m, path, k) ==
    IF m = 0 THEN {<<>>}
    ELSE UNION {{<<t>> \o f : t \in TreesAt(j, Append(path, k)),
                              f \in ForestsAt(m - j, path, k + 1)} :
                j \in 1..m}

\* root{dirA{file1}, file2}, file2 with a summary
ExampleTree ==
    LET node(path, name, type, children) ==
          RepoTree(path, [name |-> name, summary |-> NoSummary], type, children)
    IN  node(<<>>, <<"r", "o", "o", "t">>, "directory",
             <<node(<<1>>, <<"d", "i", "r", "A">>, "directory",
                    <<node(<<1, 1>>, <<"f", "i", "l", "e", "1">>, "file",
                           <<>>)>>),
               RepoTree(<<2>>, [name |-> <<"f", "i", "l", "e", "2">>,
                                summary |-> <<"B", "a">>], "file", <<>>)>>)

\* the trees of n nodes with one child per directory, the directories
\* labelled alike
RECURSIVE ChainsAt(_, _)
ChainsAt(n, path) ==
    IF n = 1 THEN Leaves(path)
    ELSE {RepoTree(path, [name |-> <<"A", "b">>, summary |-> NoSummary],
                   "directory", <<t>>) :
            t \in ChainsAt(n - 1, Append(path, 1))}

\* the tree the server returns for a job, where only its identity matters
TreeOf(job) ==
    LET l1 == [name |-> <<"A", "b">>, summary |-> NoSummary]
        l2 == [name |-> <<"b">>, summary |-> <<"B", "a">>]
    IN  IF job % 2 = 1
        THEN RepoTree(<<>>, l1, "directory", <<RepoTree(<<1>>, l2, "file", <<>>)>>)
        ELSE RepoTree(<<>>, l2, "directory", <<RepoTree(<<1>>, l2, "file", <<>>)>>)

\* the trees explored: all of up to MaxNodes nodes, the chains one level
\* deeper, and the example
RepoTrees ==
    UNION {TreesAt(n, <<>>) : n \in 1..MaxNodes}
      \cup ChainsAt(MaxNodes + 1, <<>>) \cup {ExampleTree}

\* what the user may type into the search box
Queries ==
    {<<>>, <<"a", "B">>, <<"b", "a">>, <<"b">>, <<"c">>,
     <<"f", "i", "l", "e", "1">>}

RECURSIVE hasMatchingDescendant(_, _)
\* only direct children looked at
hasMatchingDescendant_Shallow(node, query) ==
    \E i \in 1..Len(node.children) :
       LET child == node.children[i]
       IN  \/ includes(toLowerCase(child.name), toLowerCase(query))
           \/ /\ child.summary # NoSummary
              /\ includes(toLowerCase(child.summary), toLowerCase(query))

hasMatchingDescendant(node, query) ==
    \E i \in 1..Len(node.children) :
       LET child == node.children[i]
       IN  \/ includes(toLowerCase(child.name), toLowerCase(query))
           \/ /\ child.summary # NoSummary
              /\ includes(toLowerCase(child.summary), toLowerCase(query))
           \/ hasMatchingDescendant(child, query)

\* children kept for their own name or summary only
filteredChildren_Direct(node, query) ==
    LET keep(child) ==
          \/ query = <<>>
          \/ includes(toLowerCase(child.name), toLowerCase(query))
          \/ /\ child.summary # NoSummary
             /\ includes(toLowerCase(child.summary), toLowerCase(query))
    IN  SelectSeq(node.children, keep)

\* node.children?.filter(...)
filteredChildren(node, query) ==
    LET keep(child) ==
          \/ query = <<>>
          \/ includes(toLowerCase(child.name), toLowerCase(query))
          \/ /\ child.summary # NoSummary
             /\ includes(toLowerCase(child.summary), toLowerCase(query))
          \/ hasMatchingDescendant(child, query)
    IN  SelectSeq(node.children, keep)

\* RegExp(`(${searchQuery})`, 'gi') run on text from position from (1-based):
\* the position of the leftmost match, 0 if there is none
regexExec(text, query, from) ==
    LET at == {i \in from..(Len(text) - Len(query) + 1) :
                 toLowerCase(SubSeq(text, i, i + Len(query) - 1))
                   = toLowerCase(query)}
    IN  IF at = {} THEN 0 ELSE CHOOSE i \in at : \A j \in at : i <= j

\* text.split(regex) with the capturing group: text between matches and the
\* matches themselves, alternating
RECURSIVE split(_, _, _)
split(text, query, from) ==
    LET at == regexExec(text, query, from)
    IN  IF at = 0 THEN <<SubSeq(text, from, Len(text))>>
        ELSE <<SubSeq(text, from, at - 1),
               SubSeq(text, at, at + Len(query) - 1)>>
               \o split(text, query, at + Len(query))

\* regex.test(part) of the global regex: it starts at lastIndex and leaves
\* lastIndex behind the match, or at 0 when there is none
regexTest(part, query, lastIndex) ==
    LET at == IF lastIndex > Len(part) THEN 0
              ELSE regexExec(part, query, lastIndex + 1)
    IN  IF at = 0 THEN [found |-> FALSE, lastIndex |-> 0]
        ELSE [found |-> TRUE, lastIndex |-> at + Len(query) - 1]

\* parts.map(...): a part is wrapped in the highlight span if the test finds
\* a match in it
RECURSIVE mapParts(_, _, _, _)
mapParts(parts, query, index, lastIndex) ==
    IF index > Len(parts) THEN <<>>
    ELSE LET t == regexTest(parts[index], query, lastIndex)
         IN  <<[text |-> parts[index], mark |-> t.found]>>
               \o mapParts(parts, query, index + 1, t.lastIndex)

\* every text wrapped in the highlight span
highlightMatch_Always(text, query) == <<[text |-> text, mark |-> TRUE]>>

highlightMatch(text, query) ==
    IF query = <<>> THEN <<[text |-> text, mark |-> FALSE]>>
    ELSE mapParts(split(text, query, 1), query, 1, 0)

\* a query typed opens every directory
childrenBlock_OpenOnQuery(node, expanded) ==
    /\ node.type = "directory"
    /\ Len(node.children) > 0
    /\ node.path \in expanded \/ searchQuery # <<>>

\* isDirectory && hasChildren && isExpanded
childrenBlock(node, expanded) ==
    /\ node.type = "directory"
    /\ Len(node.children) > 0
    /\ node.path \in expanded

\* mutant of isSelected: nodes compared by name
isSelected_ByName(selected, node) ==
    selected # NoRepoTree /\ selected.name = node.name

\* selectedNode?.path === node.path
isSelected(selected, node) ==
    selected # NoRepoTree /\ selected.path = node.path

\* the rows rendered by TreeNode for node and, recursively, for the children
\* in its children block
RECURSIVE TreeNode(_, _, _, _)
TreeNode(node, expanded, query, selected) ==
    LET kids == filteredChildren(node, query)
        block == childrenBlock(node, expanded)
        summaryShown ==
          /\ node.summary # NoSummary
          /\ \/ query = <<>>
             \/ includes(toLowerCase(node.summary), toLowerCase(query))
        row == [path |-> node.path,
                node |-> node,
                isSelected |-> isSelected(selected, node),
                name |-> highlightMatch(node.name, query),
                summary |-> IF summaryShown
                            THEN highlightMatch(node.summary, query)
                            ELSE <<>>,
                toggle |-> (node.type = "directory" /\ Len(node.children) > 0),
                block |-> block,
                kids |-> IF block THEN [i \in 1..Len(kids) |-> kids[i].path]
                         ELSE <<>>]
    IN  {row} \cup IF block
                   THEN UNION {TreeNode(kids[i], expanded, query, selected) :
                               i \in 1..Len(kids)}
                   ELSE {}

\* the rows rendered by the TreeNode that is given isExpanded as a prop: it
\* renders its children with isExpanded={false}
RECURSIVE TreeNodeProp(_, _, _, _)
TreeNodeProp(node, isExpanded, query, selected) ==
    LET kids == filteredChildren(node, query)
        block == /\ node.type = "directory"
                 /\ Len(node.children) > 0
                 /\ isExpanded
        summaryShown ==
          /\ node.summary # NoSummary
          /\ \/ query = <<>>
             \/ includes(toLowerCase(node.summary), toLowerCase(query))
        row == [path |-> node.path,
                node |-> node,
                isSelected |-> isSelected(selected, node),
                name |-> highlightMatch(node.name, query),
                summary |-> IF summaryShown
                            THEN highlightMatch(node.summary, query)
                            ELSE <<>>,
                toggle |-> (node.type = "directory" /\ Len(node.children) > 0),
                block |-> block,
                kids |-> IF block THEN [i \in 1..Len(kids) |-> kids[i].path]
                         ELSE <<>>]
    IN  {row} \cup IF block
                   THEN UNION {TreeNodeProp(kids[i], FALSE, query, selected) :
                               i \in 1..Len(kids)}
                   ELSE {}

\* the <TreeNode> element of RepoExplorer for the root
rootTreeNode(v, tree, expanded, query, selected) ==
    IF v = "prop"
    THEN TreeNodeProp(tree, tree.path \in expanded, query, selected)
    ELSE TreeNode(tree, expanded, query, selected)

\* an entry once added is never removed
toggleExpanded_AddOnly(expanded, path) == expanded \cup {path}

\* RepoExplorer.toggleExpanded: the new set
toggleExpanded(expanded, path) ==
    IF path \in expanded THEN expanded \ {path} ELSE expanded \cup {path}

\* ------------------------------------------------------ the export
\* the UTF-16 code unit of a character of the texts
charCodeAt(ch) ==
    CASE ch = "A" -> 65 [] ch = "B" -> 66 [] ch = "a" -> 97 [] ch = "b" -> 98
      [] ch = "c" -> 99 [] ch = "d" -> 100 [] ch = "e" -> 101
      [] ch = "f" -> 102 [] ch = "i" -> 105 [] ch = "l" -> 108
      [] ch = "o" -> 111 [] ch = "r" -> 114 [] ch = "t" -> 116
      [] ch = "1" -> 49 [] ch = "2" -> 50
      [] ch = "quote" -> 34 [] ch = "backslash" -> 92 [] ch = "newline" -> 10
      [] ch = "eacute" -> 233 [] ch = "euro" -> 8364
      [] ch = "high" -> 55357 [] ch = "low" -> 56832

Chars ==
    {"A", "B", "a", "b", "c", "d", "e", "f", "i", "l", "o", "r", "t", "1",
     "2", "quote", "backslash", "newline", "eacute", "euro", "high", "low"}

fromCharCode(unit) ==
    IF \E ch \in Chars : charCodeAt(ch) = unit
    THEN CHOOSE ch \in Chars : charCodeAt(ch) = unit
    ELSE "other"

unitsOf(text) == [i \in 1..Len(text) |-> charCodeAt(text[i])]

textOf(units) == [i \in 1..Len(units) |-> fromCharCode(units[i])]

isHigh(unit) == unit >= 55296 /\ unit <= 56319

isLow(unit) == unit >= 56320 /\ unit <= 57343

\* the code unit of a hexadecimal digit, in lower or in upper case
hexDigit(d, upper) ==
    IF d < 10 THEN 48 + d ELSE IF upper THEN 55 + d ELSE 87 + d

\* \uXXXX
unicodeEscape(unit) ==
    <<92, 117, hexDigit(unit \div 4096, FALSE),
      hexDigit((unit \div 256) % 16, FALSE),
      hexDigit((unit \div 16) % 16, FALSE), hexDigit(unit % 16, FALSE)>>

\* JSON.stringify of a string, without the enclosing quotes: the quote, the
\* backslash and the control characters are escaped, and so is a surrogate
\* that is not half of a pair
RECURSIVE quoteFrom(_, _)
quoteFrom(units, i) ==
    IF i > Len(units) THEN <<>>
    ELSE LET u == units[i]
         IN  IF isHigh(u) /\ i < Len(units) /\ isLow(units[i + 1])
             THEN <<u, units[i + 1]>> \o quoteFrom(units, i + 2)
             ELSE (CASE u = 34 -> <<92, 34>>
                     [] u = 92 -> <<92, 92>>
                     [] u = 8 -> <<92, 98>>
                     [] u = 9 -> <<92, 116>>
                     [] u = 10 -> <<92, 110>>
                     [] u = 12 -> <<92, 102>>
                     [] u = 13 -> <<92, 114>>
                     [] OTHER -> IF u < 32 \/ isHigh(u) \/ isLow(u)
                                 THEN unicodeEscape(u)
                                 ELSE <<u>>)
                  \o quoteFrom(units, i + 1)

\* mutant of quoteJSONString: the text between quotes as it is
quoteJSONString_Raw(text) == <<34>> \o unitsOf(text) \o <<34>>

\* the string literal JSON.stringify writes for a text
quoteJSONString(text) == <<34>> \o quoteFrom(unitsOf(text), 1) \o <<34>>

\* JSON.stringify(tree, null, 2): the document keeps the nesting of the tree,
\* its texts are string literals, and a key without value is left out (an
\* empty tuple stands for the key left out)
RECURSIVE stringify(_)
stringify(node) ==
    [path |-> node.path,
     name |-> quoteJSONString(node.name),
     summary |-> IF node.summary = NoSummary THEN <<>>
                 ELSE quoteJSONString(node.summary),
     type |-> node.type,
     children |-> [i \in 1..Len(node.children) |-> stringify(node.children[i])]]

\* A-Z a-z 0-9 - _ . ! ~ * ' ( )
uriUnreserved(u) ==
    \/ u >= 65 /\ u <= 90
    \/ u >= 97 /\ u <= 122
    \/ u >= 48 /\ u <= 57
    \/ u \in {45, 95, 46, 33, 126, 42, 39, 40, 41}

\* %XX
percent(byte) == <<37, hexDigit(byte \div 16, TRUE), hexDigit(byte % 16, TRUE)>>

\* the UTF-8 bytes of a code point, percent-encoded
utf8Percent(cp) ==
    IF cp < 128 THEN percent(cp)
    ELSE IF cp < 2048
    THEN percent(192 + (cp \div 64)) \o percent(128 + (cp % 64))
    ELSE IF cp < 65536
    THEN percent(224 + (cp \div 4096)) \o percent(128 + ((cp \div 64) % 64))
           \o percent(128 + (cp % 64))
    ELSE percent(240 + (cp \div 262144))
           \o percent(128 + ((cp \div 4096) % 64))
           \o percent(128 + ((cp \div 64) % 64)) \o percent(128 + (cp % 64))

URIError == <<0>>

\* encodeURIComponent: code point by code point; it throws on a surrogate
\* that is not half of a pair
RECURSIVE encodeFrom(_, _)
encodeFrom(units, i) ==
    IF i > Len(units) THEN <<>>
    ELSE LET u == units[i]
             pair == isHigh(u) /\ i < Len(units) /\ isLow(units[i + 1])
             rest == encodeFrom(units, IF pair THEN i + 2 ELSE i + 1)
         IN  IF rest = URIError \/ (~pair /\ (isHigh(u) \/ isLow(u)))
             THEN URIError
             ELSE IF uriUnreserved(u) THEN <<u>> \o rest
             ELSE IF pair
             THEN utf8Percent(65536 + (u - 55296) * 1024 + (units[i + 1] - 56320))
                    \o rest
             ELSE utf8Percent(u) \o rest

encodeURIComponent(units) == encodeFrom(units, 1)

\* encodeURIComponent over the texts of a document
RECURSIVE encodeDocument(_)
encodeDocument(doc) ==
    [doc EXCEPT !.name = encodeURIComponent(@),
                !.summary = encodeURIComponent(@),
                !.children = [i \in 1..Len(@) |-> encodeDocument(@[i])]]

RECURSIVE throws(_)
throws(doc) ==
    \/ doc.name = URIError
    \/ doc.summary = URIError
    \/ \E i \in 1..Len(doc.children) : throws(doc.children[i])

NoDownload == [href |-> stringify(NoRepoTree), download |-> <<>>]

\* downloadJSON: the link the click follows, or none when encodeURIComponent
\* throws
downloadJSON(tree) ==
    LET dataStr == stringify(tree)
        dataUri == encodeDocument(dataStr)
    IN  IF throws(dataUri) THEN NoDownload
        ELSE [href |-> dataUri, download |-> tree.name]

\* ------------------------------------------------------ the chat
\* what the user may have in the question box
ChatInputs == {<<>>, <<" ">>, <<"q">>, <<" ", "q", " ">>}

RECURSIVE trimStart(_), trimEnd(_)
trimStart(text) ==
    IF text # <<>> /\ Head(text) = " " THEN trimStart(Tail(text)) ELSE text

trimEnd(text) ==
    IF text # <<>> /\ text[Len(text)] = " "
    THEN trimEnd(SubSeq(text, 1, Len(text) - 1))
    ELSE text

\* String.prototype.trim
trim(text) == trimEnd(trimStart(text))

\* BottomChat after its useState initialisers; pending: the onAskQuestion
\* calls not yet settled; asked: the submissions accepted so far
NoChat ==
    [isExpanded |-> FALSE, messages |-> <<>>, inputValue |-> <<>>,
     isLoading |-> FALSE, pending |-> <<>>, asked |-> 0]

\* a Message; n: the handleSubmit invocation that created it
Message(type, content, n) == [type |-> type, content |-> content, n |-> n]

Apology ==
    <<"I'm sorry, I encountered an error while processing your question. Please try again.">>

NoAnswer == <<"I couldn't find a specific answer to that question.">>

AskResponses == {"answer", "noAnswer", "httpError", "networkError"}

\* RepoExplorer.handleAskQuestion settled: the answer, or the rejection
handleAskQuestion(resp) ==
    CASE resp = "answer" -> [ok |-> TRUE, text |-> <<"a">>]
      [] resp = "noAnswer" -> [ok |-> TRUE, text |-> NoAnswer]
      [] OTHER ->
           [ok |-> FALSE,
            text |-> <<"Sorry, I encountered an error while trying to answer your question.">>]

\* a question accepted while one is in flight
handleSubmit_NoLoadingGuard(c, jobId) ==
    IF trim(c.inputValue) = <<>> \/ jobId = NoJob THEN c
    ELSE [c EXCEPT !.inputValue = <<>>,
                   !.isLoading = TRUE,
                   !.messages = Append(@, Message("user", trim(c.inputValue),
                                                  c.asked + 1)),
                   !.pending = Append(@, c.asked + 1),
                   !.asked = @ + 1]

\* handleSubmit up to its await
handleSubmit(c, jobId) ==
    IF trim(c.inputValue) = <<>> \/ c.isLoading \/ jobId = NoJob THEN c
    ELSE [c EXCEPT !.inputValue = <<>>,
                   !.isLoading = TRUE,
                   !.messages = Append(@, Message("user", trim(c.inputValue),
                                                  c.asked + 1)),
                   !.pending = Append(@, c.asked + 1),
                   !.asked = @ + 1]

\* handleSubmit resumed for the i-th call in flight: try, catch, finally
handleSubmitSettled(c, i, outcome) ==
    [c EXCEPT !.messages = Append(@, Message("assistant",
                                             IF outcome.ok THEN outcome.text
                                             ELSE Apology,
                                             c.pending[i])),
              !.isLoading = FALSE,
              !.pending = SubSeq(@, 1, i - 1) \o SubSeq(@, i + 1, Len(@))]

\* ------------------------------------------------------ actions
\* bookkeeping of what a handler did: onComplete/onError calls made
Tally(res) ==
    [res.act EXCEPT !.calls = IF res.call.kind # "none" THEN Sat(@) ELSE @]

\* a handler of activation a ran with result res: its setCurrentJob reaches
\* the card if its component instance is still mounted, its callback reaches
\* RepoAnalyzer through the closure of the render that created the effect
Apply(a, res) ==
    /\ acts' = [acts EXCEPT ![a] = Tally(res)]
    /\ shown' = IF res.set.state # "none" /\ instance # NoJob
                   /\ instance = acts[a].inst
                THEN res.set ELSE shown
    /\ SetOrch(CASE res.call.kind = "none" -> OrchState
                 [] res.call.kind = "complete" ->
                      handleJobComplete(OrchState, res.call.tree, a)
                 [] res.call.kind = "error" ->
                      handleError(OrchState, res.call.msg))
    /\ UNCHANGED <<variant, view, instance, inputOwner, submitting, nextJob,
                   jobLimit>>
    /\ UNCHANGED explorer

Fresh(limit) ==
    /\ jobLimit = limit
    /\ currentJob = NoJob
    /\ repoTree = NoTree
    /\ completedJobId = NoJob
    /\ error = NoError
    /\ renderPending = FALSE
    /\ view = Render(handleReset(0))
    /\ instance = NoJob
    /\ shown = InitialJob
    /\ inputOwner = NoJob
    /\ submitting = {}
    /\ nextJob = 1
    /\ acts = [j \in Jobs |-> Unborn]
    /\ explorerTree = NoRepoTree
    /\ searchQuery = <<>>
    /\ expandedNodes = {}
    /\ selectedNode = NoRepoTree
    /\ download = NoDownload
    /\ chat = NoChat
    /\ explorerVariant = "set"
    /\ toggled = {}
    /\ rows = {}

Start(limit) == variant \in Variants /\ Fresh(limit)

Init == Start(MaxJobs)

InitWide == Start(MaxJobs + 1)

\* RepoInput.handleSubmit up to its await: the button is disabled while loading
Submit ==
    /\ ~renderPending
    /\ view.input
    /\ inputOwner = NoJob
    /\ nextJob <= jobLimit
    /\ inputOwner' = nextJob
    /\ submitting' = submitting \cup {nextJob}
    /\ nextJob' = nextJob + 1
    /\ UNCHANGED <<variant, orch, renderPending, view, instance, shown,
                   jobLimit, acts>>
    /\ UNCHANGED explorer

\* RepoInput.handleSubmit resumed: onAnalysisStart(job) or the alert
SubmitResponse(j, ok) ==
    /\ j \in submitting
    /\ submitting' = submitting \ {j}
    /\ inputOwner' = IF inputOwner = j THEN NoJob ELSE inputOwner
    /\ SetOrch(IF ok THEN handleAnalysisStart(OrchState, j) ELSE OrchState)
    /\ UNCHANGED <<variant, view, instance, shown, nextJob, jobLimit, acts>>
    /\ UNCHANGED explorer

\* a click on one of the three reset controls of the committed view
Reset ==
    /\ ~renderPending
    /\ view.progress # NoJob \/ view.explorer \/ view.errorPanel
    /\ SetOrch(handleReset(OrchState))
    /\ UNCHANGED <<variant, view, instance, shown, inputOwner, submitting,
                   nextJob, jobLimit, acts>>
    /\ UNCHANGED explorer

\* RepoExplorer across a commit that leaves v mounted: it is unmounted and
\* its state discarded; or mounted, its useState initialisers run with the
\* tree given; or, already mounted, re-rendered with the tree now given and
\* the state it has
commitExplorer(v) ==
    LET t == TreeOf(repoTree)
    IN  IF ~v.explorer
        THEN /\ explorerTree' = NoRepoTree
             /\ searchQuery' = <<>>
             /\ expandedNodes' = {}
             /\ selectedNode' = NoRepoTree
             /\ toggled' = {}
             /\ rows' = {}
             /\ chat' = NoChat
             /\ UNCHANGED <<download, explorerVariant>>
        ELSE IF ~view.explorer
        THEN /\ explorerTree' = t
             /\ searchQuery' = <<>>
             /\ expandedNodes' = {t.path}
             /\ selectedNode' = NoRepoTree
             /\ toggled' = {}
             /\ rows' = rootTreeNode(explorerVariant, t,
                                     {t.path}, <<>>, NoRepoTree)
             /\ chat' = NoChat
             /\ UNCHANGED <<download, explorerVariant>>
        ELSE /\ explorerTree' = t
             /\ rows' = rootTreeNode(explorerVariant, t,
                                     expandedNodes, searchQuery, selectedNode)
             /\ UNCHANGED <<searchQuery, expandedNodes, selectedNode, download,
                            explorerVariant, toggled, chat>>

\* React commits the pending render: the effect of the mounted JobProgress
\* is cleaned up (its dependencies onComplete/onError are new functions on
\* every render) and, if a job is current, run again
Commit ==
    /\ renderPending
    /\ LET v == Render(OrchState)
           was == view.progress
           closed == IF was # NoJob THEN [acts EXCEPT ![was] = Cleanup(@)]
                     ELSE acts
           inst == IF currentJob = NoJob THEN NoJob
                   ELSE IF was # NoJob THEN instance ELSE currentJob
       IN  /\ view' = v
           /\ instance' = inst
           /\ acts' = IF currentJob # NoJob
                      THEN [closed EXCEPT ![currentJob] = Effect(currentJob, inst)]
                      ELSE closed
           /\ shown' = IF currentJob # NoJob /\ was # NoJob THEN shown
                       ELSE InitialJob
           /\ inputOwner' = IF view.input /\ v.input THEN inputOwner ELSE NoJob
    /\ renderPending' = FALSE
    /\ UNCHANGED <<variant, orch, submitting, nextJob, jobLimit>>
    /\ commitExplorer(Render(OrchState))

TimerFire(a) ==
    /\ variant = "poll"
    /\ acts[a].timer # 0
    /\ acts[a].pollCount < MaxPolls
    /\ Apply(a, Result(pollJobEnter([acts[a] EXCEPT !.timer = 0]),
                       NoCall, NoSet))

StatusResponse(a, resp) ==
    /\ variant = "poll"
    /\ acts[a].statusInFlight > 0
    /\ Apply(a, pollJobOnStatus(acts[a], resp))

TreeResponse(a, resp) ==
    /\ variant = "poll"
    /\ acts[a].treeInFlight > 0
    /\ Apply(a, pollJobOnTree(acts[a], resp, a))

WsMessage(a, data) ==
    /\ variant = "ws"
    /\ acts[a].socket = "open"
    /\ Apply(a, onmessage(acts[a], data, a))

WsError(a) ==
    /\ variant = "ws"
    /\ acts[a].socket = "open"
    /\ Apply(a, onerror(acts[a]))

FallbackResponse(a, resp) ==
    /\ variant = "ws"
    /\ acts[a].treeInFlight > 0
    /\ Apply(a, fallbackSettled(acts[a], resp, a))

Next ==
    \/ Submit
    \/ \E j \in Jobs, ok \in BOOLEAN : SubmitResponse(j, ok)
    \/ Reset
    \/ Commit
    \/ \E a \in Jobs : TimerFire(a)
    \/ \E a \in Jobs, resp \in StatusResponses : StatusResponse(a, resp)
    \/ \E a \in Jobs, resp \in TreeResponses : TreeResponse(a, resp)
    \/ \E a \in Jobs, data \in WsMessages : WsMessage(a, data)
    \/ \E a \in Jobs : WsError(a)
    \/ \E a \in Jobs, resp \in FallbackResponses : FallbackResponse(a, resp)

Spec == Init /\ [][Next]_vars

\* React always commits a render it has scheduled
FairSpec == Spec /\ WF_vars(Commit)

\* the same program with one more job submitted
SpecWide == InitWide /\ [][Next]_vars

\* ------------------------------------------------ fixed-interval polling
\* status requests issued so far by the activations of jobs 1..n
RECURSIVE Polled(_)
Polled(n) == IF n = 0 THEN 0 ELSE acts[n].pollCount + Polled(n - 1)

\* the interval fires: one more pollJob starts, the interval stays armed;
\* MaxPolls requests are issued in one behaviour
IntervalFire(a) ==
    /\ variant = "interval"
    /\ acts[a].timer # 0
    /\ Polled(MaxJobs + 1) < MaxPolls
    /\ Apply(a, Result(intervalPollJob(acts[a]), NoCall, NoSet))

IntervalStatus(a, resp) ==
    /\ variant = "interval"
    /\ acts[a].statusInFlight > 0
    /\ Apply(a, intervalOnStatus(acts[a], resp))

IntervalTree(a, resp) ==
    /\ variant = "interval"
    /\ acts[a].treeInFlight > 0
    /\ Apply(a, intervalOnTree(acts[a], resp, a))

InitInterval == variant = "interval" /\ Fresh(MaxJobs)

NextInterval ==
    \/ Submit
    \/ \E j \in Jobs, ok \in BOOLEAN : SubmitResponse(j, ok)
    \/ Reset
    \/ Commit
    \/ \E a \in Jobs : IntervalFire(a)
    \/ \E a \in Jobs, resp \in StatusResponses : IntervalStatus(a, resp)
    \/ \E a \in Jobs, resp \in TreeResponses : IntervalTree(a, resp)

SpecInterval == InitInterval /\ [][NextInterval]_vars

\* ------------------------------------------------ a run without failures
\* adaptive polling when the user never resets and every request succeeds:
\* the status source answers every status request with one of the states of
\* a job's lifecycle, and with `completed` or `failed` to the last request
\* the model lets be issued
Served(a) ==
    {resp \in StatusResponses :
       /\ resp.kind = "ok"
       /\ resp.state \in {"queued", "running", "completed", "failed"}
       /\ acts[a].pollCount >= MaxPolls => resp.state \in {"completed", "failed"}}

StatusServed(a) == \E resp \in Served(a) : StatusResponse(a, resp)

TreeServed(a) == TreeResponse(a, "tree")

SubmitServed(j) == SubmitResponse(j, TRUE)

InitLive == Init /\ variant = "poll"

NextLive ==
    \/ Submit
    \/ \E j \in Jobs : SubmitServed(j)
    \/ Commit
    \/ \E a \in Jobs : TimerFire(a)
    \/ \E a \in Jobs : StatusServed(a)
    \/ \E a \in Jobs : TreeServed(a)

\* every request completes, every armed timer fires, every render commits
SpecLive ==
    /\ InitLive
    /\ [][NextLive]_vars
    /\ WF_vars(Commit)
    /\ \A a \in Jobs :
         /\ WF_vars(SubmitServed(a))
         /\ WF_vars(TimerFire(a))
         /\ WF_vars(StatusServed(a))
         /\ WF_vars(TreeServed(a))

\* ------------------------------------------------------ the explorer
\* RepoAnalyzer after the first job completed and its explorer was mounted
ExplorerDisplayed ==
    /\ variant = "poll"
    /\ currentJob = NoJob
    /\ repoTree = 1
    /\ completedJobId = 1
    /\ error = NoError
    /\ renderPending = FALSE
    /\ view = Render(handleJobComplete(handleReset(0), 1, 1))
    /\ instance = NoJob
    /\ shown = InitialJob
    /\ inputOwner = NoJob
    /\ submitting = {}
    /\ nextJob = 2
    /\ jobLimit = MaxJobs
    /\ acts = [j \in Jobs |->
                 IF j = 1
                 THEN [Unborn EXCEPT !.born = TRUE, !.inst = 1,
                                     !.pollCount = 1, !.calls = 1,
                                     !.treeFetches = 1]
                 ELSE Unborn]

\* RepoExplorer mounted with the tree of the job
InitExplorer ==
    /\ ExplorerDisplayed
    /\ explorerTree \in RepoTrees
    /\ searchQuery = <<>>
    /\ expandedNodes = {explorerTree.path}
    /\ selectedNode = NoRepoTree
    /\ download = NoDownload
    /\ chat = NoChat
    /\ explorerVariant = "set"
    /\ toggled = {}
    /\ rows = rootTreeNode(explorerVariant, explorerTree,
                           {explorerTree.path}, <<>>, NoRepoTree)

\* the explorer is on screen and takes input
Mounted == view.explorer /\ ~renderPending

\* mutant of SetQuery: the filter is written back to the root's children
SetQuery_InPlace(query) ==
    /\ Mounted
    /\ searchQuery' = query
    /\ explorerTree' = [explorerTree EXCEPT
                          !.children = filteredChildren(explorerTree, query)]
    /\ rows' = rootTreeNode(explorerVariant, explorerTree',
                            expandedNodes, query, selectedNode)
    /\ UNCHANGED <<expandedNodes, selectedNode, download, explorerVariant,
                   toggled, chat>>
    /\ UNCHANGED channel

\* SearchBar onChange / clear: setSearchQuery, then the render
SetQuery(query) ==
    /\ Mounted
    /\ searchQuery' = query
    /\ rows' = rootTreeNode(explorerVariant, explorerTree,
                            expandedNodes, query, selectedNode)
    /\ UNCHANGED <<explorerTree, expandedNodes, selectedNode, download,
                   explorerVariant, toggled, chat>>
    /\ UNCHANGED channel

\* mutant of toggleClick: the click reaches the row too
toggleClick_Bubbles(node, selected) == node

\* the selection after a click on the expand/collapse button of node's row:
\* e.stopPropagation() keeps the click from the row's onClick
toggleClick(node, selected) == selected

\* a click on the expand/collapse button of a rendered row, then the render
ToggleExpanded(path) ==
    /\ Mounted
    /\ \E row \in rows :
         /\ row.path = path /\ row.toggle
         /\ selectedNode' = toggleClick(row.node, selectedNode)
    /\ expandedNodes' = toggleExpanded(expandedNodes, path)
    /\ toggled' = IF path \in toggled THEN toggled \ {path}
                  ELSE toggled \cup {path}
    /\ rows' = rootTreeNode(explorerVariant, explorerTree,
                            expandedNodes', searchQuery, selectedNode')
    /\ UNCHANGED <<explorerTree, searchQuery, download, explorerVariant, chat>>
    /\ UNCHANGED channel

\* a click on a rendered row: onNodeSelect(node), then the render
Select(path) ==
    /\ Mounted
    /\ \E row \in rows :
         /\ row.path = path
         /\ selectedNode' = row.node
    /\ rows' = rootTreeNode(explorerVariant, explorerTree,
                            expandedNodes, searchQuery, selectedNode')
    /\ UNCHANGED <<explorerTree, searchQuery, expandedNodes, download,
                   explorerVariant, toggled, chat>>
    /\ UNCHANGED channel

\* a click on Export JSON: downloadJSON; no state of the component is set
Export ==
    /\ Mounted
    /\ download' = downloadJSON(explorerTree)
    /\ UNCHANGED <<explorerTree, searchQuery, expandedNodes, selectedNode,
                   explorerVariant, toggled, rows, chat>>
    /\ UNCHANGED channel

NextExplorer ==
    \/ \E query \in Queries : SetQuery(query)
    \/ \E path \in {row.path : row \in rows} : ToggleExpanded(path)
    \/ \E path \in {row.path : row \in rows} : Select(path)
    \/ Export

SpecExplorer == InitExplorer /\ [][NextExplorer]_vars

\* RepoExplorer.tsx mounted with the tree of the job: its TreeNode is the
\* revision given isExpanded as a prop
InitExplorerProp ==
    /\ ExplorerDisplayed
    /\ explorerTree \in RepoTrees
    /\ searchQuery = <<>>
    /\ expandedNodes = {explorerTree.path}
    /\ selectedNode = NoRepoTree
    /\ download = NoDownload
    /\ chat = NoChat
    /\ explorerVariant = "prop"
    /\ toggled = {}
    /\ rows = rootTreeNode("prop", explorerTree, {explorerTree.path}, <<>>,
                           NoRepoTree)

SpecExplorerProp == InitExplorerProp /\ [][NextExplorer]_vars

\* ------------------------------------------------------ the exported file
\* texts of up to MaxText characters that need escaping or more than one
\* byte, halves of surrogate pairs included
ExportChars ==
    {"a", "quote", "backslash", "newline", "eacute", "euro", "high", "low"}

ExportTexts == UNION {[1..n -> ExportChars] : n \in 0..MaxText}

\* a directory and a file in it; the text is the name of the directory or
\* the summary of the file
ExportTrees ==
    {RepoTree(<<>>, [name |-> t, summary |-> NoSummary], "directory",
              <<RepoTree(<<1>>, [name |-> <<"a">>, summary |-> NoSummary],
                         "file", <<>>)>>) : t \in ExportTexts}
      \cup {RepoTree(<<>>, [name |-> <<"a">>, summary |-> NoSummary],
                     "directory",
                     <<RepoTree(<<1>>, [name |-> <<"b">>, summary |-> t],
                                "file", <<>>)>>) : t \in ExportTexts}

\* RepoExplorer mounted with a tree of such texts
InitExport ==
    /\ ExplorerDisplayed
    /\ explorerTree \in ExportTrees
    /\ searchQuery = <<>>
    /\ expandedNodes = {explorerTree.path}
    /\ selectedNode = NoRepoTree
    /\ download = NoDownload
    /\ chat = NoChat
    /\ explorerVariant = "set"
    /\ toggled = {}
    /\ rows = rootTreeNode(explorerVariant, explorerTree,
                           {explorerTree.path}, <<>>, NoRepoTree)

NextExport == Export

SpecExport == InitExport /\ [][NextExport]_vars

\* ------------------------------------------------------ the session
\* the WebSocket variant with the explorer of job 2 on screen while the fallback
\* tree fetch of job 1, reset before it settled, is still in flight
SessionStart ==
    /\ variant = "ws"
    /\ currentJob = NoJob
    /\ repoTree = 2
    /\ completedJobId = 2
    /\ error = NoError
    /\ renderPending = FALSE
    /\ view = Render(handleJobComplete(handleReset(0), 2, 2))
    /\ instance = NoJob
    /\ shown = InitialJob
    /\ inputOwner = NoJob
    /\ submitting = {}
    /\ nextJob = 3
    /\ jobLimit = MaxJobs
    /\ acts = [j \in Jobs |->
                 IF j = 1
                 THEN [Unborn EXCEPT !.born = TRUE, !.inst = 1,
                                     !.socket = "closed", !.treeInFlight = 1,
                                     !.treeFetches = 1]
                 ELSE IF j = 2
                 THEN [Unborn EXCEPT !.born = TRUE, !.inst = 2,
                                     !.socket = "closed", !.calls = 1]
                 ELSE Unborn]
    /\ explorerTree = TreeOf(2)
    /\ searchQuery = <<>>
    /\ expandedNodes = {TreeOf(2).path}
    /\ selectedNode = NoRepoTree
    /\ download = NoDownload
    /\ chat = NoChat
    /\ explorerVariant = "set"
    /\ toggled = {}
    /\ rows = rootTreeNode(explorerVariant, TreeOf(2),
                           {TreeOf(2).path}, <<>>, NoRepoTree)

\* what can still happen: the view is worked on or reset, and the fetch
\* settles
NextSession ==
    \/ Reset
    \/ Commit
    \/ \E a \in Jobs, resp \in FallbackResponses : FallbackResponse(a, resp)
    \/ \E query \in Queries : SetQuery(query)
    \/ \E path \in {row.path : row \in rows} : ToggleExpanded(path)
    \/ \E path \in {row.path : row \in rows} : Select(path)
    \/ Export

SpecSession == SessionStart /\ [][NextSession]_vars

\* ------------------------------------------------------ the chat
explorerPane == <<explorerTree, searchQuery, expandedNodes, selectedNode,
                  download, explorerVariant, toggled, rows>>

\* the collapsed bar is clicked: handleExpand; the bar is disabled without
\* a job id
Expand ==
    /\ Mounted
    /\ ~chat.isExpanded
    /\ completedJobId # NoJob
    /\ chat' = [chat EXCEPT !.isExpanded = TRUE]
    /\ UNCHANGED <<channel, explorerPane>>

\* the collapse button of the expanded panel
Collapse ==
    /\ Mounted
    /\ chat.isExpanded
    /\ chat' = [chat EXCEPT !.isExpanded = FALSE]
    /\ UNCHANGED <<channel, explorerPane>>

\* the textarea is rendered in the expanded panel, disabled while loading
\* or without a job id
TextareaEnabled ==
    /\ Mounted
    /\ chat.isExpanded
    /\ ~(chat.isLoading \/ completedJobId = NoJob)

\* onChange of the textarea
TypeInput(text) ==
    /\ TextareaEnabled
    /\ chat' = [chat EXCEPT !.inputValue = text]
    /\ UNCHANGED <<channel, explorerPane>>

\* Enter in the textarea, or the send button: handleSubmit, then the render
SubmitQuestion ==
    /\ TextareaEnabled
    /\ chat.asked < MaxQuestions
    /\ chat' = handleSubmit(chat, completedJobId)
    /\ UNCHANGED <<channel, explorerPane>>

\* onAskQuestion settles for a call in flight
AnswerArrives(resp) ==
    /\ \E i \in 1..Len(chat.pending) :
         chat' = handleSubmitSettled(chat, i, handleAskQuestion(resp))
    /\ UNCHANGED <<channel, explorerPane>>

\* the Clear chat button, rendered while there are messages
ClearChat ==
    /\ Mounted
    /\ chat.isExpanded
    /\ Len(chat.messages) > 0
    /\ chat' = [chat EXCEPT !.messages = <<>>]
    /\ UNCHANGED <<channel, explorerPane>>

\* the explorer of the first job displayed, BottomChat just mounted
InitChat ==
    /\ ExplorerDisplayed
    /\ explorerTree = TreeOf(1)
    /\ searchQuery = <<>>
    /\ expandedNodes = {explorerTree.path}
    /\ selectedNode = NoRepoTree
    /\ download = NoDownload
    /\ chat = NoChat
    /\ explorerVariant = "set"
    /\ toggled = {}
    /\ rows = rootTreeNode(explorerVariant, explorerTree,
                           {explorerTree.path}, <<>>, NoRepoTree)

NextChat ==
    \/ Expand
    \/ Collapse
    \/ \E text \in ChatInputs : TypeInput(text)
    \/ SubmitQuestion
    \/ \E resp \in AskResponses : AnswerArrives(resp)
    \/ ClearChat

SpecChat == InitChat /\ [][NextChat]_vars

\* ------------------------------------------------------ properties
Born(a) == acts[a].born
Closed(a) == acts[a].born /\ ~acts[a].isActive

\* a handler result that touches nothing: no callback, no setCurrentJob, and
\* the activation r left with no new request and no timer
Quiet(res, r) ==
    /\ res.call = NoCall
    /\ res.set = NoSet
    /\ res.act.statusInFlight <= r.statusInFlight
    /\ res.act.treeInFlight <= r.treeInFlight
    /\ res.act.pollCount = r.pollCount
    /\ res.act.treeFetches = r.treeFetches
    /\ res.act.timer = 0

\* C1: while one job stays mounted, every snapshot applied to the progress
\* card leaves the displayed progress greater than or equal to what it was.
C1_DisplayedProgressMonotone ==
    [][(instance # NoJob /\ instance' = instance
          /\ view'.progress = view.progress)
       => shown'.progress >= shown.progress]_vars

\* C2: adaptive polling, after the effect cleanup: no timer is left to start
\* a poll, a poll entered anyway issues nothing, and whatever the status
\* request or the tree fetch in flight returns, pollJob makes no callback, no
\* setCurrentJob, no new request and no timer.
C2_PollQuietAfterCleanup ==
    variant = "poll" =>
      \A a \in Jobs : Closed(a) =>
        /\ acts[a].timer = 0
        /\ pollJobEnter(acts[a]) = acts[a]
        /\ acts[a].statusInFlight > 0 =>
             \A resp \in StatusResponses :
                Quiet(pollJobOnStatus(acts[a], resp), acts[a])
        /\ acts[a].treeInFlight > 0 =>
             \A resp \in TreeResponses :
                Quiet(pollJobOnTree(acts[a], resp, a), acts[a])

\* cleanup has interleaved with pollJob at two points: one closed activation
\* still has its status request in flight, another its tree fetch
C2_Witness ==
    /\ variant = "poll"
    /\ \E a \in Jobs : Closed(a) /\ acts[a].statusInFlight > 0
    /\ \E a \in Jobs : Closed(a) /\ acts[a].treeInFlight > 0

\* C3: WebSocket, after the effect cleanup no activation invokes onComplete
\* or onError any more.
C3_WsNoCallbackAfterCleanup ==
    [][\A a \in Jobs :
         (variant = "ws" /\ Closed(a)) => acts'[a].calls = acts[a].calls]_vars

\* C4: WebSocket, onComplete and onError are together invoked at most once
\* per socket.
C4_WsAtMostOneTerminal ==
    variant = "ws" => \A a \in Jobs : acts[a].calls <= 1

\* a channel is live: its flag is set and it holds an open socket, a pending
\* timer or a request in flight
LiveChannel(a) ==
    /\ acts[a].born
    /\ acts[a].isActive
    /\ \/ acts[a].socket = "open"
       \/ acts[a].timer # 0
       \/ acts[a].statusInFlight > 0
       \/ acts[a].treeInFlight > 0

\* C5: at most one job channel is live at any time, and handleAnalysisStart
\* for a new job occurs only when no channel of an earlier job is live.
C5_OneLiveChannel ==
    /\ [](Cardinality({a \in Jobs : LiveChannel(a)}) <= 1)
    /\ [][(currentJob' # NoJob /\ currentJob' # currentJob)
          => \A a \in Jobs : ~LiveChannel(a)]_vars

\* the state part of C6: a closed activation holds no timer and no open
\* socket, a second cleanup changes nothing, and once no render is pending
\* every activation that made a callback is closed
C6_Released ==
    \A a \in Jobs :
      /\ Closed(a) => (acts[a].timer = 0 /\ acts[a].socket # "open")
      /\ Born(a) => Cleanup(Cleanup(acts[a])) = Cleanup(acts[a])
      /\ (acts[a].calls > 0 /\ ~renderPending) => Closed(a)

\* C6: after the cleanup no poll timer is pending and the socket is closed;
\* running the cleanup again changes nothing; and every activation that has
\* invoked onComplete or onError is eventually cleaned up (the call count
\* never decreases and a closed activation stays closed, so "again and again
\* all callers are closed" says that each caller is closed eventually).
C6_ReleaseOnEveryPath ==
    /\ []C6_Released
    /\ []<>(\A a \in Jobs : acts[a].calls > 0 => Closed(a))

\* an activation made its callback and was then cleaned up by the commit,
\* another was cleaned up by a reset with no callback made
C6_Witness ==
    /\ ~renderPending
    /\ \E a, b \in Jobs :
         /\ Closed(a) /\ acts[a].calls > 0
         /\ Closed(b) /\ acts[b].calls = 0

C8_WsTreeDelivery ==
    variant = "ws" =>
      \A a \in Jobs : Born(a) =>
        /\ acts[a].treeFetches <= 1
        /\ acts[a].treeInFlight <= 1
        /\ acts[a].socket = "open" => acts[a].treeFetches = 0
        /\ (acts[a].isActive /\ acts[a].socket = "open") =>
             \A data \in WsMessages : data.type = "completed" =>
               LET res == onmessage(acts[a], data, a)
               IN  IF data.tree
                   THEN /\ res.call = CallComplete(a)
                        /\ res.act.treeFetches = 0
                        /\ res.act.treeInFlight = 0
                   ELSE /\ res.call = NoCall
                        /\ res.act.treeFetches = 1
                        /\ res.act.treeInFlight = 1
                        /\ res.act.socket = "closed"
        /\ acts[a].treeInFlight > 0 =>
             fallbackSettled(acts[a], "tree", a).call = CallComplete(a)

\* a fallback fetch delivered the displayed tree, and another socket completed
\* with an inline tree and no fetch
C8_Witness ==
    /\ variant = "ws"
    /\ repoTree # NoTree
    /\ acts[repoTree].treeFetches = 1
    /\ acts[repoTree].treeInFlight = 0
    /\ \E b \in Jobs :
         acts[b].calls = 1 /\ acts[b].treeFetches = 0 /\ acts[b].socket = "closed"

\* the delay the schedule of C9 gives after the n-th request
ClaimedDelay(n) ==
    IF n <= 3 THEN 500
    ELSE IF n <= 10 THEN 1000
    ELSE IF n <= 20 THEN 2000
    ELSE 5000

\* C9: adaptive polling: the delay armed after the n-th request is 0.5 s for
\* n = 1..3, 1 s for the next seven, 2 s for the next ten, 5 s afterwards.
C9_DelaySchedule ==
    variant = "poll" =>
      \A a \in Jobs :
        acts[a].timer # 0 => acts[a].timer = ClaimedDelay(acts[a].pollCount)

\* C10: adaptive polling: at most one status request is in flight per
\* activation; a timer is armed only when no request is in flight; a closed
\* activation issues no further request, whatever its request in flight
\* returns.
C10_NoPipelining ==
    variant = "poll" =>
      \A a \in Jobs : Born(a) =>
        /\ acts[a].statusInFlight <= 1
        /\ acts[a].timer # 0 =>
             (acts[a].statusInFlight = 0 /\ acts[a].treeInFlight = 0)
        /\ acts[a].statusInFlight > 0 => acts[a].treeInFlight = 0
        /\ Closed(a) =>
             /\ acts[a].timer = 0
             /\ pollJobEnter(acts[a]).statusInFlight = acts[a].statusInFlight
             /\ acts[a].statusInFlight > 0 =>
                  \A resp \in StatusResponses :
                    LET res == pollJobOnStatus(acts[a], resp)
                    IN  res.act.timer = 0 /\ res.act.statusInFlight = 0

\* a second request is in flight after the first was processed, while an
\* earlier activation was closed with its request in flight
C10_Witness ==
    /\ variant = "poll"
    /\ \E a \in Jobs :
         acts[a].isActive /\ acts[a].pollCount >= 2 /\ acts[a].statusInFlight = 1
    /\ \E b \in Jobs : Closed(b) /\ acts[b].statusInFlight = 1

\* C11: WebSocket: a message that is not JSON is ignored: the handler makes no
\* callback and no setCurrentJob, the activation and its socket are left as
\* they were (the socket open), and every well-formed message after it is
\* processed exactly as it would have been without it.
C11_MalformedIgnored ==
    variant = "ws" =>
      \A a \in Jobs : (acts[a].isActive /\ acts[a].socket = "open") =>
        LET res == onmessage(acts[a], [type |-> "malformed"], a)
        IN  /\ res.call = NoCall
            /\ res.set = NoSet
            /\ res.act = acts[a]
            /\ res.act.socket = "open"
            /\ \A data \in WsMessages :
                 onmessage(res.act, data, a) = onmessage(acts[a], data, a)

\* a socket that has already shown a status update on the card is open for a
\* malformed message, after an earlier socket ended with its one callback
C11_Witness ==
    /\ variant = "ws"
    /\ \E a \in Jobs :
         /\ acts[a].isActive /\ acts[a].socket = "open"
         /\ instance = a
         /\ shown = [state |-> "running", progress |-> MaxProgress]
         /\ acts[a].calls = 0
    /\ \E b \in Jobs : Closed(b) /\ acts[b].calls = 1

\* a step in which pollJob of activation a ended in its catch block because
\* the status request failed
StatusFailureStep(a) ==
    /\ variant = "poll"
    /\ acts[a].isActive
    /\ acts'[a].statusInFlight < acts[a].statusInFlight
    /\ acts'[a].calls > acts[a].calls
    /\ error' = "Failed to check job status"

\* C12: adaptive polling: a failed status request reports the error and
\* leaves the channel going: the activation stays active and has a timer
\* armed or a request in flight, so a later status request is issued for the
\* same job unless the caller closes the channel first.
C12_FailureKeepsPolling ==
    [][\A a \in Jobs :
         StatusFailureStep(a) =>
           /\ acts'[a].isActive
           /\ acts'[a].timer # 0 \/ acts'[a].statusInFlight > 0]_vars

\* C13: adaptive polling: while the activation is live, a status request that
\* fails, by an HTTP error status or by a network error alike, makes exactly
\* one onError call with the message "Failed to check job status", which
\* RepoAnalyzer stores as its error while clearing currentJob; the component
\* arms no timer and issues no request after it.
C13_StatusFailureSurfaced ==
    variant = "poll" =>
      \A a \in Jobs : Born(a) =>
        /\ acts[a].calls <= 1
        /\ acts[a].calls = 1 =>
             (acts[a].timer = 0 /\ acts[a].statusInFlight = 0)
        /\ (acts[a].isActive /\ acts[a].statusInFlight > 0) =>
             /\ acts[a].calls = 0
             /\ \A resp \in StatusResponses : resp.kind # "ok" =>
                  LET res == pollJobOnStatus(acts[a], resp)
                      o == handleError(OrchState, res.call.msg)
                  IN  /\ res.call = CallError("Failed to check job status")
                      /\ res.set = NoSet
                      /\ Tally(res).calls = 1
                      /\ res.act.timer = 0
                      /\ res.act.statusInFlight = 0
                      /\ res.act.treeInFlight = 0
                      /\ res.act.pollCount = acts[a].pollCount
                      /\ o.error = "Failed to check job status"
                      /\ o.currentJob = NoJob

\* the second status request of a job failed: its one onError call is what
\* RepoAnalyzer shows, and nothing is armed or in flight for the job
C13_Witness ==
    /\ variant = "poll"
    /\ error = "Failed to check job status"
    /\ currentJob = NoJob
    /\ \E a \in Jobs :
         /\ acts[a].calls = 1
         /\ acts[a].pollCount >= 2
         /\ acts[a].treeFetches = 0
         /\ acts[a].timer = 0 /\ acts[a].statusInFlight = 0

\* what C14 requires of a handler result res for a job failure with message
\* msg: onError is called with the job's message (the text "Analysis failed"
\* when the job gave none), RepoAnalyzer shows it and clears currentJob, and
\* the activation is left with nothing that could run a handler again: no
\* timer, no request or fetch in flight, no open socket
JobFailureTerminal(res, msg) ==
    LET o == handleError(OrchState, res.call.msg)
    IN  /\ res.call.kind = "error"
        /\ msg # "" => res.call.msg = msg
        /\ msg = "" => res.call.msg = "Analysis failed"
        /\ o.error = res.call.msg
        /\ o.currentJob = NoJob
        /\ Render(o).errorPanel
        /\ Render(o).progress = NoJob
        /\ res.act.timer = 0
        /\ res.act.statusInFlight = 0
        /\ res.act.treeInFlight = 0
        /\ res.act.treeFetches = 0
        /\ res.act.socket # "open"

\* C14: when the job reports failure, by a polled status `failed` or by a
\* pushed `failed` message, RepoAnalyzer shows exactly the job's message and
\* clears currentJob, and the failure is terminal: no status request, timer,
\* tree fetch or open socket is left for the job, so no further status or
\* message is processed and onComplete cannot follow.
C14_JobFailureVerbatimTerminal ==
    \A a \in Jobs :
      /\ (variant = "poll" /\ acts[a].isActive /\ acts[a].statusInFlight > 0) =>
           \A resp \in StatusResponses :
             (resp.kind = "ok" /\ resp.state = "failed") =>
               JobFailureTerminal(pollJobOnStatus(acts[a], resp), resp.message)
      /\ (variant = "ws" /\ acts[a].isActive /\ acts[a].socket = "open") =>
           \A data \in WsMessages : data.type = "failed" =>
             JobFailureTerminal(onmessage(acts[a], data, a), data.message)

\* a job has failed with a message of its own, which is the error shown; its
\* activation, not yet cleaned up, has nothing left to run
C14_Witness ==
    /\ error = "disk full"
    /\ currentJob = NoJob
    /\ renderPending
    /\ \E a \in Jobs :
         /\ view.progress = a
         /\ acts[a].isActive
         /\ acts[a].calls = 1
         /\ acts[a].timer = 0 /\ acts[a].statusInFlight = 0
         /\ acts[a].treeInFlight = 0 /\ acts[a].socket # "open"

\* C15: for a completed job whose tree fetch has failed (network error, HTTP
\* error status, or a response without a tree) onError is invoked and not
\* onComplete: when the tree fetch of a live activation settles, either the
\* fetched tree is handed over and becomes the tree of the explorer, or
\* RepoAnalyzer ends in the error state with a fetch-failure message, no
\* current job and its tree untouched.
C15_TreeFetchFailureIsError ==
    [][\A a \in Jobs :
         (acts[a].isActive /\ acts'[a].treeInFlight < acts[a].treeInFlight) =>
           \/ repoTree' = a /\ completedJobId' = a /\ error' = error
           \/ /\ error' \in {"Failed to check job status",
                              "Failed to fetch tree"}
              /\ currentJob' = NoJob
              /\ repoTree' = repoTree
              /\ completedJobId' = completedJobId]_vars

\* ---------------------------------------------- properties of the explorer
\* every node of the subtree of node, node included
RECURSIVE NodesOf(_)
NodesOf(node) ==
    {node} \cup UNION {NodesOf(node.children[i]) : i \in 1..Len(node.children)}

NodeAt(path) == CHOOSE n \in NodesOf(explorerTree) : n.path = path

\* text contains part as a substring, the case of letters disregarded
ContainsCI(text, part) ==
    \E off \in 0..(Len(text) - Len(part)) :
       \A j \in 1..Len(part) : Lower(text[off + j]) = Lower(part[j])

\* the node's name or summary contains the query
Matches(node, query) ==
    \/ ContainsCI(node.name, query)
    \/ node.summary # NoSummary /\ ContainsCI(node.summary, query)

\* the condition of C16 for a child to stay
Passes(child, query) ==
    \/ query = <<>>
    \/ Matches(child, query)
    \/ /\ Len(child.children) > 0
       /\ \E x \in NodesOf(child) \ {child} : Matches(x, query)

\* the children from position i on that pass, in their original order
RECURSIVE Kept(_, _, _)
Kept(children, query, i) ==
    IF i > Len(children) THEN <<>>
    ELSE (IF Passes(children[i], query) THEN <<children[i]>> ELSE <<>>)
           \o Kept(children, query, i + 1)

RenderedPaths == {row.path : row \in rows}

\* C16: for every node d of the tree and the query typed, the filtered
\* children of d are exactly the children of d, in their original order, that
\* pass: the query is empty, or the child's name or summary contains it
\* case-insensitively, or the child has children and some descendant at any
\* depth matches; the children rendered in a children block are these.  For
\* root{dirA{file1}, file2}, file2 with a summary, fully expanded, and the query "file1" the rows
\* rendered are root, dirA and file1.
C16_FilterExact ==
    /\ \A d \in NodesOf(explorerTree) :
         filteredChildren(d, searchQuery) = Kept(d.children, searchQuery, 1)
    /\ \A row \in rows : row.block =>
         LET kept == Kept(NodeAt(row.path).children, searchQuery, 1)
         IN  row.kids = [i \in 1..Len(kept) |-> kept[i].path]
    /\ (/\ explorerTree = ExampleTree
        /\ searchQuery = <<"f", "i", "l", "e", "1">>
        /\ {<<>>, <<1>>} \subseteq expandedNodes)
         => RenderedPaths = {<<>>, <<1>>, <<1, 1>>}

\* the example of C16 on screen: file2 is not rendered
C16_Witness ==
    /\ explorerTree = ExampleTree
    /\ searchQuery = <<"f", "i", "l", "e", "1">>
    /\ {<<>>, <<1>>} \subseteq expandedNodes
    /\ <<1, 1>> \in RenderedPaths
    /\ <<2>> \notin RenderedPaths

\* C17: for a non-empty query, if a node's name or summary contains the
\* query then every ancestor directory of the node, at any depth, is among
\* the filtered children of its own parent.
C17_UpwardClosed ==
    searchQuery # <<>> =>
      \A n \in NodesOf(explorerTree) : Matches(n, searchQuery) =>
        \A k \in 1..(Len(n.path) - 1) :
          LET ancestor == NodeAt(SubSeq(n.path, 1, k))
              parent == NodeAt(SubSeq(n.path, 1, k - 1))
              kept == filteredChildren(parent, searchQuery)
          IN  \E i \in 1..Len(kept) : kept[i] = ancestor

\* a node three levels down matches the query and neither of its ancestor
\* directories below the root does
C17_Witness ==
    /\ searchQuery # <<>>
    /\ \E n \in NodesOf(explorerTree) :
         /\ Len(n.path) = 3
         /\ Matches(n, searchQuery)
         /\ \A k \in 1..2 : ~Matches(NodeAt(SubSeq(n.path, 1, k)), searchQuery)

\* C18: with the empty query the filtered children of every node are its
\* children in the same order, every children block shows all the children,
\* and every rendered name and summary is the plain text with no highlight.
C18_EmptyQueryIdentity ==
    searchQuery = <<>> =>
      /\ \A d \in NodesOf(explorerTree) :
           filteredChildren(d, searchQuery) = d.children
      /\ \A row \in rows :
           LET node == NodeAt(row.path)
           IN  /\ row.name = <<[text |-> node.name, mark |-> FALSE]>>
               /\ row.summary =
                    IF node.summary = NoSummary THEN <<>>
                    ELSE <<[text |-> node.summary, mark |-> FALSE]>>
               /\ row.block =>
                    row.kids = [i \in 1..Len(node.children) |->
                                  node.children[i].path]

\* the query is empty again after the tree was worked on: a block of two
\* children and a summary are on screen
C18_Witness ==
    /\ searchQuery = <<>>
    /\ toggled # {}
    /\ \E row \in rows : row.block /\ Len(row.kids) = 2
    /\ \E row \in rows : row.summary # <<>>

\* C19: from ExpansionState = {root path}, after any sequence of toggles a
\* path is expanded iff (it is the root path) differs from (it was toggled an
\* odd number of times); toggling a path twice gives the set back; and a
\* toggle changes the membership of the toggled path only.
C19_ToggleParity ==
    /\ [](\A n \in NodesOf(explorerTree) :
            /\ (n.path \in expandedNodes)
                 <=> ((n.path = explorerTree.path) # (n.path \in toggled))
            /\ toggleExpanded(toggleExpanded(expandedNodes, n.path), n.path)
                 = expandedNodes)
    /\ [][\A n \in NodesOf(explorerTree) :
            ((n.path \in expandedNodes') # (n.path \in expandedNodes))
              => ((n.path \in toggled') # (n.path \in toggled))]_vars

\* the root was collapsed after a directory below it had been expanded
C19_Witness ==
    /\ explorerTree.path \notin expandedNodes
    /\ explorerTree.path \in toggled
    /\ \E path \in expandedNodes : path \in toggled

\* C20: a children block is rendered only for a node whose path is expanded
\* and which has at least one child left by the filter: an expanded directory
\* whose children the query all eliminates renders no children block.
C20_NoEmptyChildrenBlock ==
    \A row \in rows :
      row.block => (row.path \in expandedNodes /\ Len(row.kids) > 0)

\* C21: selecting a node leaves the expansion state and the query unchanged;
\* toggling a node leaves the selection and the query unchanged (the toggle
\* control does not also select); changing the query leaves the expansion
\* state and the selection unchanged.
C21_Frames ==
    [][/\ selectedNode' # selectedNode =>
            expandedNodes' = expandedNodes /\ searchQuery' = searchQuery
       /\ expandedNodes' # expandedNodes =>
            selectedNode' = selectedNode /\ searchQuery' = searchQuery
       /\ searchQuery' # searchQuery =>
            expandedNodes' = expandedNodes /\ selectedNode' = selectedNode]_vars

\* a node is selected, another one is collapsed and a query is set
C21_Witness ==
    /\ selectedNode # NoRepoTree
    /\ searchQuery # <<>>
    /\ \E path \in toggled : path # selectedNode.path /\ path \notin expandedNodes

\* C23: no explorer operation (toggleExpanded, select, setQuery, export)
\* mutates the tree: the tree after any of them is the tree before it.
C23_TreeUntouched ==
    [][explorerTree' = explorerTree]_vars

\* every operation has acted, and the filter hides a node of the tree
C23_Witness ==
    /\ download # NoDownload
    /\ selectedNode # NoRepoTree
    /\ toggled # {}
    /\ searchQuery # <<>>
    /\ \E n \in NodesOf(explorerTree) : n.path \notin RenderedPaths

\* C22: the selection is none when the explorer is mounted; after select(n) it
\* is n, and the row of n is the one rendered row marked selected; at most
\* one rendered row is marked selected at any time; and once the state set by
\* the orchestrator's handleReset is on screen the selection is none.
C22_Selection ==
    /\ [](/\ Cardinality({row \in rows : row.isSelected}) <= 1
          /\ explorerTree = NoRepoTree => selectedNode = NoRepoTree
          /\ (~renderPending /\ repoTree = NoTree) => selectedNode = NoRepoTree)
    /\ [][/\ (explorerTree = NoRepoTree /\ explorerTree' # NoRepoTree) =>
                selectedNode' = NoRepoTree
          /\ \A path \in RenderedPaths :
                Select(path) =>
                  /\ selectedNode' = NodeAt(path)
                  /\ \A row \in rows' : row.isSelected <=> row.path = path]_vars

\* a node is selected and marked, and handleReset has run
C22_Witness ==
    /\ selectedNode # NoRepoTree
    /\ \E row \in rows : row.isSelected /\ row.path # explorerTree.path
    /\ renderPending
    /\ OrchState = handleReset(OrchState)

\* C26: whenever the explorer comes to display the tree of a newly completed
\* analysis, nothing of the previous session remains: the displayed tree is
\* the new tree, the expansion state is {new root path}, the selection is
\* none and the query is empty.
C26_FreshExplorer ==
    [][(explorerTree' # explorerTree /\ explorerTree' # NoRepoTree) =>
         /\ explorerTree' = TreeOf(repoTree')
         /\ expandedNodes' = {explorerTree'.path}
         /\ selectedNode' = NoRepoTree
         /\ searchQuery' = <<>>]_vars

\* the views RepoAnalyzer has on screen
ViewsDisplayed ==
    (IF view.input THEN {"input"} ELSE {})
      \cup (IF view.progress # NoJob THEN {"progress"} ELSE {})
      \cup (IF view.explorer THEN {"explorer"} ELSE {})
      \cup (IF view.errorPanel THEN {"error"} ELSE {})

\* C24: at every reachable state of RepoAnalyzer exactly one of the four views
\* (input form, progress, explorer, error panel) is displayed.
C24_ExactlyOneView ==
    Cardinality(ViewsDisplayed) = 1

\* what C25 requires of the handler result res of a failure outcome: onError
\* is called with a non-empty message, and RepoAnalyzer then has the error
\* panel on screen and no job in progress
FailureShown(res) ==
    LET o == handleError(OrchState, res.call.msg)
    IN  /\ res.call.kind = "error"
        /\ res.call.msg # ""
        /\ o.error = res.call.msg
        /\ o.currentJob = NoJob
        /\ Render(o).errorPanel
        /\ Render(o).progress = NoJob

\* C25: every failure outcome of a live channel (the job reported failed, a
\* status request failed, the tree fetch failed, the socket had a connection
\* error, an `error` message was pushed) leads to the error panel displayed
\* with a non-empty message and no job in progress; from every state with an
\* error handleReset leads to the initial state; and no reachable state is
\* left without a view that offers reset or submit.
C25_FailuresShown ==
    /\ \A a \in Jobs : acts[a].isActive =>
         /\ (variant = "poll" /\ acts[a].statusInFlight > 0) =>
              \A resp \in StatusResponses :
                (resp.kind # "ok" \/ resp.state = "failed") =>
                  FailureShown(pollJobOnStatus(acts[a], resp))
         /\ (variant = "poll" /\ acts[a].treeInFlight > 0) =>
              \A resp \in TreeResponses \ {"tree"} :
                FailureShown(pollJobOnTree(acts[a], resp, a))
         /\ (variant = "ws" /\ acts[a].socket = "open") =>
              /\ \A data \in WsMessages : data.type \in {"failed", "error"} =>
                   FailureShown(onmessage(acts[a], data, a))
              /\ FailureShown(onerror(acts[a]))
         /\ (variant = "ws" /\ acts[a].treeInFlight > 0) =>
              \A resp \in FallbackResponses \ {"tree"} :
                FailureShown(fallbackSettled(acts[a], resp, a))
    /\ error # NoError => handleReset(OrchState) = handleReset(0)
    /\ ViewsDisplayed # {}

\* C28: adaptive polling: within one activation of the effect, onComplete and
\* onError together are invoked at most once, whatever the sequence of status
\* and tree responses; and once one of them has been invoked the activation
\* has no request in flight and no timer pending, so no handler of it can
\* run again.
C28_OneCallbackThenNothing ==
    variant = "poll" =>
      \A a \in Jobs : Born(a) =>
        /\ acts[a].calls <= 1
        /\ acts[a].calls = 1 =>
             /\ acts[a].timer = 0
             /\ acts[a].statusInFlight = 0
             /\ acts[a].treeInFlight = 0
             /\ ~ENABLED TimerFire(a)
             /\ \A resp \in StatusResponses : ~ENABLED StatusResponse(a, resp)
             /\ \A resp \in TreeResponses : ~ENABLED TreeResponse(a, resp)
        /\ acts[a].statusInFlight > 0 =>
             \A resp \in StatusResponses :
               Tally(pollJobOnStatus(acts[a], resp)).calls <= 1
        /\ acts[a].treeInFlight > 0 =>
             \A resp \in TreeResponses :
               Tally(pollJobOnTree(acts[a], resp, a)).calls <= 1

\* after two polls the tree was fetched and handed over by the one callback
\* of the activation, which is still mounted
C28_Witness ==
    /\ variant = "poll"
    /\ \E a \in Jobs :
         /\ acts[a].isActive
         /\ acts[a].calls = 1
         /\ acts[a].pollCount >= 2
         /\ acts[a].treeFetches = 1
         /\ repoTree = a

\* C30: adaptive polling never stalls silently: an activation that is live
\* and has made no callback has a status request or a tree fetch in flight or
\* a timer pending, whatever state values the status responses carried,
\* values other than queued, running, completed and failed included.
C30_NoSilentStall ==
    variant = "poll" =>
      \A a \in Jobs :
        (acts[a].isActive /\ acts[a].calls = 0) =>
          \/ acts[a].statusInFlight > 0
          \/ acts[a].treeInFlight > 0
          \/ acts[a].timer # 0

\* the value of a hexadecimal digit
hexValue(u) == IF u <= 57 THEN u - 48 ELSE IF u <= 70 THEN u - 55 ELSE u - 87

\* the bytes the browser saves for the body of a data: URL
RECURSIVE percentDecode(_, _)
percentDecode(uri, i) ==
    IF i > Len(uri) THEN <<>>
    ELSE IF uri[i] = 37 /\ i + 2 <= Len(uri)
    THEN <<16 * hexValue(uri[i + 1]) + hexValue(uri[i + 2])>>
           \o percentDecode(uri, i + 3)
    ELSE <<uri[i]>> \o percentDecode(uri, i + 1)

\* the UTF-16 code units of a code point
codeUnits(cp) ==
    IF cp < 65536 THEN <<cp>>
    ELSE <<55296 + ((cp - 65536) \div 1024), 56320 + ((cp - 65536) % 1024)>>

\* the file read as UTF-8; U+FFFD for a byte that starts no sequence
RECURSIVE utf8Decode(_, _)
utf8Decode(bytes, i) ==
    IF i > Len(bytes) THEN <<>>
    ELSE LET b == bytes[i]
             cont(k) == bytes[i + k] % 64
         IN  IF b < 128 THEN <<b>> \o utf8Decode(bytes, i + 1)
             ELSE IF b >= 192 /\ b < 224 /\ i + 1 <= Len(bytes)
             THEN codeUnits((b - 192) * 64 + cont(1))
                    \o utf8Decode(bytes, i + 2)
             ELSE IF b >= 224 /\ b < 240 /\ i + 2 <= Len(bytes)
             THEN codeUnits((b - 224) * 4096 + cont(1) * 64 + cont(2))
                    \o utf8Decode(bytes, i + 3)
             ELSE IF b >= 240 /\ b < 248 /\ i + 3 <= Len(bytes)
             THEN codeUnits((b - 240) * 262144 + cont(1) * 4096
                              + cont(2) * 64 + cont(3))
                    \o utf8Decode(bytes, i + 4)
             ELSE <<65533>> \o utf8Decode(bytes, i + 1)

SyntaxError == <<-1>>

\* JSON.parse of a string literal from position i on, the opening quote read
RECURSIVE parseFrom(_, _)
parseFrom(lit, i) ==
    IF i > Len(lit) THEN SyntaxError
    ELSE IF lit[i] = 34 THEN (IF i = Len(lit) THEN <<>> ELSE SyntaxError)
    ELSE IF lit[i] < 32 THEN SyntaxError
    ELSE IF lit[i] # 92
    THEN LET rest == parseFrom(lit, i + 1)
         IN  IF rest = SyntaxError THEN SyntaxError ELSE <<lit[i]>> \o rest
    ELSE IF i + 1 > Len(lit) THEN SyntaxError
    ELSE LET e == lit[i + 1]
             simple == CASE e = 34 -> 34 [] e = 92 -> 92 [] e = 47 -> 47
                         [] e = 98 -> 8 [] e = 102 -> 12 [] e = 110 -> 10
                         [] e = 114 -> 13 [] e = 116 -> 9 [] OTHER -> -1
         IN  IF e = 117
             THEN IF i + 5 > Len(lit) THEN SyntaxError
                  ELSE LET rest == parseFrom(lit, i + 6)
                           unit == 4096 * hexValue(lit[i + 2])
                                     + 256 * hexValue(lit[i + 3])
                                     + 16 * hexValue(lit[i + 4])
                                     + hexValue(lit[i + 5])
                       IN  IF rest = SyntaxError THEN SyntaxError
                           ELSE <<unit>> \o rest
             ELSE IF simple = -1 THEN SyntaxError
             ELSE LET rest == parseFrom(lit, i + 2)
                  IN  IF rest = SyntaxError THEN SyntaxError
                      ELSE <<simple>> \o rest

\* the text a saved string literal is parsed to
readText(uri) ==
    LET lit == utf8Decode(percentDecode(uri, 1), 1)
    IN  IF Len(lit) < 2 \/ lit[1] # 34 THEN <<"SyntaxError">>
        ELSE LET units == parseFrom(lit, 2)
             IN  IF units = SyntaxError THEN <<"SyntaxError">>
                 ELSE textOf(units)

\* the tree the saved document is parsed to
RECURSIVE readTree(_)
readTree(doc) ==
    [path |-> doc.path,
     name |-> readText(doc.name),
     summary |-> IF doc.summary = <<>> THEN NoSummary
                 ELSE readText(doc.summary),
     type |-> doc.type,
     children |-> [i \in 1..Len(doc.children) |-> readTree(doc.children[i])]]

\* C27: exporting the tree and parsing the saved JSON document gives a tree
\* equal to the exported one, for names and summaries with quotes,
\* backslashes, control characters and non-ASCII characters, surrogate pairs
\* and unpaired surrogates included: every export saves a document, and the
\* document saved reads back as the tree on screen.
C27_ExportRoundTrip ==
    /\ [](download # NoDownload => readTree(download.href) = explorerTree)
    /\ [][download' # download => download' # NoDownload]_vars

\* a tree whose text has a character of two bytes next to one that is
\* escaped, or an unpaired surrogate, has been exported
C27_Witness ==
    /\ download # NoDownload
    /\ \E n \in NodesOf(explorerTree) : \E t \in {n.name, n.summary} :
         \/ t = <<"eacute", "quote">>
         \/ t = <<"low", "high">>

\* C29: for every rendered directory with children, at any depth, toggling
\* it in renders its filtered children and toggling it out hides them: its
\* children block is rendered exactly when its path is in the expansion
\* state, and the rows of the block are the children the filter leaves.
\* Claimed for each TreeNode revision, the one given isExpanded as a prop
\* included.
C29_ToggleShowsChildren ==
    \A row \in rows : row.toggle =>
      /\ row.block <=> row.path \in expandedNodes
      /\ row.block =>
           LET kept == Kept(NodeAt(row.path).children, searchQuery, 1)
           IN  /\ row.kids = [i \in 1..Len(kept) |-> kept[i].path]
               /\ \A i \in 1..Len(kept) : kept[i].path \in RenderedPaths

\* C31: adaptive polling, the user never resets and every request succeeds:
\* a job that RepoAnalyzer tracks leads to the explorer or to the error panel
\* displayed; once the status source has reported `completed` for it, it
\* leads to onComplete invoked and the explorer displayed with completedJobId
\* equal to the job's id; once it has reported `failed`, to the error panel
\* displayed.
C31_TrackedJobEnds ==
    \A j \in Jobs :
      /\ (currentJob = j) ~> (view.explorer \/ view.errorPanel)
      /\ (currentJob = j /\ instance = j /\ shown.state = "completed") ~>
           (view.explorer /\ completedJobId = j /\ acts[j].calls = 1)
      /\ (currentJob = j /\ instance = j /\ shown.state = "failed") ~>
           view.errorPanel

\* the second status request of job 1 was answered `completed`, its tree
\* was fetched and its explorer is displayed
C31_Witness ==
    /\ variant = "poll"
    /\ ~renderPending
    /\ view.explorer
    /\ completedJobId = 1
    /\ acts[1].pollCount >= 2
    /\ acts[1].calls = 1

\* C32: in a session where no callback has been invoked yet, an activation
\* is cleaned up only by handleReset; from then on no response belonging to
\* its job changes currentJob, repoTree, completedJobId or error.
C32_ResetJobIsInert ==
    [][\A a \in Jobs :
         (/\ Closed(a)
          /\ \A b \in Jobs : acts[b].calls = 0
          /\ acts'[a] # acts[a]) => orch' = orch]_vars

\* every proper ancestor of the node at path is expanded
AncestorsExpanded(path) ==
    \A k \in 0..(Len(path) - 1) : SubSeq(path, 1, k) \in expandedNodes

\* every node from the root's child down to the node at path passes the
\* filter of its parent
PathPasses(path) ==
    \A k \in 1..Len(path) : Passes(NodeAt(SubSeq(path, 1, k)), searchQuery)

C34_OneQuestionInFlight ==
    /\ [](/\ Len(chat.pending) <= 1
          /\ chat.isLoading <=> Len(chat.pending) = 1
          /\ handleSubmit(chat, NoJob) = chat
          /\ \A text \in ChatInputs :
               LET c == [chat EXCEPT !.inputValue = text]
               IN  (c.isLoading \/ trim(text) = <<>>) =>
                     handleSubmit(c, completedJobId) = c)
    /\ [][/\ Len(chat'.pending) < Len(chat.pending) =>
               /\ \E content \in {<<"a">>, NoAnswer, Apology} :
                    chat'.messages =
                      Append(chat.messages,
                             Message("assistant", content, chat.pending[1]))
               /\ ~chat'.isLoading
               /\ chat'.pending = <<>>
          /\ Len(chat'.pending) > Len(chat.pending) =>
               /\ chat'.isLoading
               /\ chat'.messages =
                    Append(chat.messages,
                           Message("user", trim(chat.inputValue), chat'.asked))
          /\ chat'.pending = chat.pending =>
               \/ chat'.messages = chat.messages
               \/ chat'.messages = <<>>]_vars

\* the second question was accepted after the first was answered with the
\* apology, and is in flight
C34_Witness ==
    /\ chat.isLoading
    /\ chat.pending = <<2>>
    /\ Len(chat.messages) = 3
    /\ chat.messages[2] = Message("assistant", Apology, 1)

\* C35: every assistant message in the list is immediately preceded by the
\* user message it answers.
C35_QuestionAnswerPairs ==
    \A i \in 1..Len(chat.messages) :
      chat.messages[i].type = "assistant" =>
        /\ i > 1
        /\ chat.messages[i - 1].type = "user"
        /\ chat.messages[i - 1].n = chat.messages[i].n

====
